---- MODULE Spec2Model ----
(***************************************************************************)
(* Model of the Telegram reminder bot of src/src/index.ts: the reminders   *)
(* table, the six command handlers, the sqlite statements they queue and   *)
(* the callbacks of those statements, and the one-minute scheduler.        *)
(*                                                                         *)
(* Text is a sequence of atoms.  An atom is an indivisible piece of text   *)
(* (a day name, "every", a time token, a space, a comma, some other run of *)
(* letters); a word is a maximal run of atoms without a space, so that     *)
(* <<"every","one">> is the word "everyone".  The alphabet is chosen so    *)
(* that no day name, "every" or "remind" straddles two atoms.              *)
(***************************************************************************)
EXTENDS Integers, Sequences, FiniteSets, TLC

\* ------------------------------------------------------------------ bounds
\* Largest id the AUTOINCREMENT counter hands out in a run.
MaxId == 2
\* Largest number of sqlite statements queued and not yet run.
MaxPending == 2
\* Last slot of the wall clock in a run.
MaxClock == 13

\* ------------------------------------------------------- program constants
daysOfWeek == <<"sunday", "monday", "tuesday", "wednesday", "thursday",
                "friday", "saturday">>

\* The UTC offset of "Asia/Kolkata" in minutes.
IstOffset == 330
MinutesPerDay == 1440

\* ------------------------------------------------------------ input domains
Chats == {1, 2}
\* UTC offsets (minutes) of the hosts the process may run on.
HostOffsets == {IstOffset, 0}
\* What now.getDay() and now.toTimeString().slice(0, 5) may read at a tick.
TickDays == {3, 4}
TickTimes == {<<20, 0>>, <<20, 1>>}
\* The same with Sunday and Friday added, for the scheduler on its own.
AllTickDays == {0, 3, 4, 5}
AllTickTimes == {<<20, 0>>, <<20, 1>>}

SP == " "
\* Texts after "/addReminder ": accepted ones ...
AcceptedTexts == {
  <<"remind", SP, "Walk", SP, "every", SP, "Sunday", SP, "and", SP, "wednesday", SP, "8pm">>,
  <<"walk", SP, "every", SP, "wednesday", SP, "8pm">> }
\* ... more accepted ones, the days repeated and out of order, glued into
\* one word, the time in capitals ...
MoreAcceptedTexts == {
  <<"walk", SP, "every", SP, "wednesday", SP, "sunday", SP, "wednesday", SP, "8PM">>,
  <<"feed", SP, "every", SP, "sunday", "monday", SP, "99pm", SP, "8pm">>,
  <<"remind", "er", SP, "every", SP, "friday", SP, "8pm">> }
\* ... and rejected ones: no "every", no day, no time token, no time chrono
\* parses.
RejectedTexts == {
  <<"walk", SP, "sunday", SP, "8pm">>,
  <<"walk", SP, "every", SP, "8pm">>,
  <<"walk", SP, "every", SP, "sunday">>,
  <<"walk", SP, "every", SP, "sunday", SP, "99pm">> }
\* ... and texts in which "every" occurs twice: before the time, after the
\* time, and inside a word of the message.
SecondEveryTexts == {
  <<"walk", SP, "every", SP, "sunday", SP, "every", SP, "8pm">>,
  <<"walk", SP, "every", SP, "sunday", SP, "8pm", SP, "every", SP, "monday">>,
  <<"remind", SP, "every", "one", SP, "every", SP, "sunday", SP, "8pm">> }
AddTexts == AcceptedTexts \cup {<<"walk", SP, "sunday", SP, "8pm">>}
AllAddTexts == AcceptedTexts \cup MoreAcceptedTexts \cup RejectedTexts \cup SecondEveryTexts
\* Texts after "/deleteReminders ".
DeleteManyTexts == {<<"2", ",", SP, "1">>, <<"abc">>}
AllDeleteManyTexts == DeleteManyTexts \cup {
  <<"1", ",", "abc">>,
  <<",", "2">>,
  <<",">>,
  <<SP, "2", SP>>,
  <<"abc", ",", "x", "1">> }
\* The digits after "/deleteReminder " and "/updateReminder ".
IdTexts == {<<"1">>, <<"2">>}
\* The text after "/updateReminder <id> ".
UpdateTexts == {<<"new">>}

\* -------------------------------------------------------------- text helpers
\* String.prototype.toLowerCase on one atom.
LowerAtom(a) ==
  CASE a = "Sunday" -> "sunday"
    [] a = "Walk" -> "walk"
    [] a = "8PM" -> "8pm"
    [] OTHER -> a

toLowerCase(s) == [i \in 1..Len(s) |-> LowerAtom(s[i])]

\* String.prototype.includes for a needle of one atom.
includes(s, a) == \E i \in 1..Len(s) : s[i] = a

\* Index of the first occurrence of atom a in s, 0 when there is none.
IndexOf(s, a) ==
  IF includes(s, a) THEN CHOOSE i \in 1..Len(s) : s[i] = a /\ \A j \in 1..(i - 1) : s[j] # a
  ELSE 0

\* String.prototype.split(sep): every piece between occurrences of sep.
RECURSIVE split(_, _)
split(s, sep) ==
  LET i == IndexOf(s, sep)
  IN IF i = 0 THEN <<s>>
     ELSE <<SubSeq(s, 1, i - 1)>> \o split(SubSeq(s, i + 1, Len(s)), sep)

RECURSIVE trimStart(_)
trimStart(s) == IF s # <<>> /\ Head(s) = SP THEN trimStart(Tail(s)) ELSE s

RECURSIVE trimEnd(_)
trimEnd(s) ==
  IF s # <<>> /\ s[Len(s)] = SP THEN trimEnd(SubSeq(s, 1, Len(s) - 1)) ELSE s

\* String.prototype.trim.
trim(s) == trimEnd(trimStart(s))

\* Array.prototype.join.
RECURSIVE join(_, _)
join(parts, sep) ==
  IF parts = <<>> THEN <<>>
  ELSE IF Len(parts) = 1 THEN parts[1]
  ELSE parts[1] \o sep \o join(Tail(parts), sep)

\* ------------------------------------------------- /addReminder parsing
\* text.split("every") destructured into its first two pieces.
messagePartRaw(text) == split(text, "every")[1]
dayTimePartRaw(text) == split(text, "every")[2]

\* messagePartRaw.replace(/^remind\s*/, "").trim()
stripRemind(s) == IF s # <<>> /\ Head(s) = "remind" THEN trimStart(Tail(s)) ELSE s
messagePart(text) == trim(stripRemind(messagePartRaw(text)))
dayTimePart(text) == trim(dayTimePartRaw(text))

\* The filter stopping at the first day it finds.
foundDays_FirstOnly(text) ==
  LET has(day) == includes(toLowerCase(dayTimePart(text)), day)
      found == SelectSeq(daysOfWeek, has)
  IN IF found = <<>> THEN <<>> ELSE <<found[1]>>

\* daysOfWeek.filter(day => dayTimePart.toLowerCase().includes(day))
foundDays(text) ==
  LET has(day) == includes(toLowerCase(dayTimePart(text)), day)
  IN SelectSeq(daysOfWeek, has)

\* The atoms that contain a match of /\d{1,2}(am|pm)/i.
TimeLike == {"8pm", "99pm"}
matchesTime(word) == \E i \in 1..Len(word) : word[i] \in TimeLike

\* dayTimePart.split(" ").filter(part => part.match(...)).join(" ")
timePart(text) == join(SelectSeq(split(dayTimePart(text), SP), matchesTime), <<SP>>)

\* chrono.parseDate: the minute of the day of the first time expression it
\* recognises (an hour above 12 with a meridiem is no time), NoTime for null.
NoTime == -1
ChronoMinutes(a) == IF a = "8pm" THEN 20 * 60 ELSE NoTime
RECURSIVE parseDate(_)
parseDate(s) ==
  IF s = <<>> THEN NoTime
  ELSE IF ChronoMinutes(Head(s)) # NoTime THEN ChronoMinutes(Head(s))
  ELSE parseDate(Tail(s))
parsedTime(text) == parseDate(timePart(text))

\* moment(parsedTime).tz("Asia/Kolkata", true).toDate(): the wall clock of
\* the host is kept and re-labelled as IST, which moves the instant; the
\* result is the minute of the day, in UTC, of that instant.
istTime(text) == (parsedTime(text) - IstOffset + MinutesPerDay) % MinutesPerDay

\* Date.prototype.toTimeString().slice(0, 5) on a host at UTC offset off:
\* "HH:MM" as the pair <<HH, MM>>.
toTimeString(utcMinutes, off) ==
  LET local == (utcMinutes + off + MinutesPerDay) % MinutesPerDay
  IN <<local \div 60, local % 60>>
timeStr(utcMinutes, off) == toTimeString(utcMinutes, off)

\* The checks without the one of the parsed time.
addRejection_TimeUnchecked(text) ==
  IF ~includes(text, "every") THEN "noEvery"
  ELSE IF Len(foundDays(text)) = 0 THEN "noDays"
  ELSE ""

\* Why the handler rejects the text, "" when it accepts it.
addRejection(text) ==
  IF ~includes(text, "every") THEN "noEvery"
  ELSE IF Len(foundDays(text)) = 0 THEN "noDays"
  ELSE IF parsedTime(text) = NoTime THEN "noTime"
  ELSE ""

\* What the handler computes from match[1], for every text of the model.
addParsed ==
  [raw \in AllAddTexts |->
     LET text == toLowerCase(raw)
         why == addRejection(text)
     IN [why |-> why,
         messagePart |-> IF why = "noEvery" THEN <<>> ELSE messagePart(text),
         foundDays |-> IF why = "noEvery" THEN <<>> ELSE foundDays(text),
         istTime |-> IF why = "" THEN istTime(text) ELSE NoTime]]

\* ------------------------------------------------ numbers and chat ids
\* The value of a decimal digit atom.
Digits == {"0", "1", "2", "3", "4", "5", "6", "7", "8", "9"}
DigitVal(a) ==
  CASE a = "0" -> 0 [] a = "1" -> 1 [] a = "2" -> 2 [] a = "3" -> 3 [] a = "4" -> 4
    [] a = "5" -> 5 [] a = "6" -> 6 [] a = "7" -> 7 [] a = "8" -> 8 [] a = "9" -> 9
DigitOf(n) == CHOOSE a \in Digits : DigitVal(a) = n

\* parseInt on a run of digits.
RECURSIVE parseInt(_)
parseInt(s) ==
  IF s = <<>> THEN 0 ELSE 10 * parseInt(SubSeq(s, 1, Len(s) - 1)) + DigitVal(s[Len(s)])

\* Number.prototype.toString for a non-negative integer.
RECURSIVE toString(_)
toString(n) == IF n < 10 THEN <<DigitOf(n)>> ELSE toString(n \div 10) \o <<DigitOf(n % 10)>>

isDigits(s) == s # <<>> /\ \A i \in 1..Len(s) : s[i] \in Digits

\* Number(token): NaN for text that is no numeric literal; the empty string
\* converts to 0.
NaN == -1
Number(s) == IF s = <<>> THEN 0 ELSE IF isDigits(s) THEN parseInt(s) ELSE NaN
isNaN(x) == x = NaN

\* SQLite compares the INTEGER PRIMARY KEY with a bound parameter: an
\* integer parameter as it is, a text parameter after numeric affinity,
\* under which text that is no number (the empty string included) stays
\* text and equals no integer.
NoId == -1
sqlId(param) ==
  IF param.int THEN param.n
  ELSE IF isDigits(param.s) THEN parseInt(param.s) ELSE NoId
IntParam(n) == [int |-> TRUE, n |-> n, s |-> <<>>]
TextParam(s) == [int |-> FALSE, n |-> 0, s |-> s]

\* /deleteReminders: match[1].split(",").map(trim).filter(!isNaN(Number(id)))
validId(tok) == ~isNaN(Number(tok))
reminderIds(arg) ==
  LET toks == split(arg, ",")
      trimmed == [i \in 1..Len(toks) |-> trim(toks[i])]
  IN SelectSeq(trimmed, validId)

\* reminderIds of every argument text of the model.
idsParsed == [arg \in AllDeleteManyTexts |-> reminderIds(arg)]

\* --------------------------------------------------------------- the state
VARIABLES
  db,          \* the rows of table reminders
  nextId,      \* the id AUTOINCREMENT gives the next inserted row
  pending,     \* the sqlite statements queued by db.run / db.all, not yet run
  sent,        \* the bot.sendMessage calls of the last step, in order
  ev,          \* what the last step was: the handler or the statement that ran
  alive,       \* the node process is running
  hostOffset,  \* the UTC offset of the host's local time, in minutes
  clock        \* the host's wall clock and the time the interval timer is due

vars == <<db, nextId, pending, sent, ev, alive, hostOffset, clock>>

\* A row of CREATE TABLE reminders.
Row(id, chat_id, message, day, time) ==
  [id |-> id, chat_id |-> chat_id, message |-> message, day_of_week |-> day,
   time |-> time, recurring |-> "yes"]

\* A queued statement: its kind, the chatId its callback closes over (0 for
\* the scheduler) and its bound parameters; chat_id is chatId.toString().
Stmt(op, chat, param, msg, day, time) ==
  [op |-> op, chat |-> chat, chat_id |-> toString(chat), param |-> param, msg |-> msg,
   day |-> day, time |-> time]
NoStmt == Stmt("none", 0, IntParam(0), <<>>, "", <<>>)

\* One bot.sendMessage(to, ...) call: which text it is and what it interpolates.
Msg(to, kind, id, ids, days, time, rows, text) ==
  [to |-> to, kind |-> kind, id |-> id, ids |-> ids, days |-> days, time |-> time,
   rows |-> rows, text |-> text]
Reply(to, kind) == Msg(to, kind, 0, <<>>, <<>>, <<>>, <<>>, <<>>)
ReplyId(to, kind, id) == Msg(to, kind, id, <<>>, <<>>, <<>>, <<>>, <<>>)

\* The record of a step: act names the handler or callback, arg is the text
\* the handler got, stmt the statement that ran, err whether it failed and
\* changes its this.changes.
Event(act, chat, arg, stmt, err, changes) ==
  [act |-> act, chat |-> chat, arg |-> arg, stmt |-> stmt, err |-> err, changes |-> changes]
Handled(act, chat, arg) == Event(act, chat, arg, NoStmt, FALSE, 0)

\* The rows of a result set, the newest first.
RECURSIVE rowsInOrder_Descending(_)
rowsInOrder_Descending(rs) ==
  IF rs = {} THEN <<>>
  ELSE LET r == CHOOSE x \in rs : \A y \in rs : x.id >= y.id
       IN <<r>> \o rowsInOrder_Descending(rs \ {r})

\* The rows of a result set, in rowid order.
RECURSIVE rowsInOrder(_)
rowsInOrder(rs) ==
  IF rs = {} THEN <<>>
  ELSE LET r == CHOOSE x \in rs : \A y \in rs : x.id <= y.id
       IN <<r>> \o rowsInOrder(rs \ {r})

\* Time is counted in slots, SlotsPerMinute to the minute, from the call of
\* setInterval.  Period is the 60000 ms of the timer in slots.
SlotsPerMinute == 3
Period == SlotsPerMinute
\* The clock when setInterval is called: the timer is due one period later.
StartClock == [now |-> 0, due |-> Period]

\* The statements of a sequence with the one at index i removed.
without(q, i) == SubSeq(q, 1, i - 1) \o SubSeq(q, i + 1, Len(q))

queuedInserts == Len(SelectSeq(pending, LAMBDA o : o.op = "insert"))

Init ==
  /\ db = {}
  /\ nextId = 1
  /\ pending = <<>>
  /\ sent = <<>>
  /\ ev = Handled("init", 0, <<>>)
  /\ alive = TRUE
  /\ hostOffset = IstOffset
  /\ clock = StartClock

\* The same on a host in any of the time zones of the model.
InitAnyHost ==
  /\ db = {}
  /\ nextId = 1
  /\ pending = <<>>
  /\ sent = <<>>
  /\ ev = Handled("init", 0, <<>>)
  /\ alive = TRUE
  /\ hostOffset \in HostOffsets
  /\ clock = StartClock

\* ------------------------------------------------------------ the handlers
\* bot.onText(/\/start/)
Start(chat) ==
  /\ alive
  /\ sent' = <<Reply(chat, "welcome")>>
  /\ ev' = Handled("start", chat, <<>>)
  /\ UNCHANGED <<db, nextId, pending, alive, hostOffset, clock>>

\* The inserts foundDays.forEach queues, one per found day.
addInserts(chat, raw, off) ==
  LET p == addParsed[raw]
  IN [i \in 1..Len(p.foundDays) |->
        Stmt("insert", chat, IntParam(0), p.messagePart, p.foundDays[i],
             timeStr(p.istTime, off))]

\* bot.onText(/\/addReminder (.+)/i): raw is match[1].
AddReminder(chat, raw) ==
  LET p == addParsed[raw]
  IN /\ alive
     /\ ev' = Handled("add", chat, raw)
     /\ IF p.why = "noEvery" THEN
          /\ sent' = <<Reply(chat, "errNoEvery")>>
          /\ UNCHANGED pending
        ELSE IF p.why = "noDays" THEN
          /\ sent' = <<Reply(chat, "errNoDays")>>
          /\ UNCHANGED pending
        ELSE IF p.why = "noTime" THEN
          /\ sent' = <<Reply(chat, "errNoTime")>>
          /\ UNCHANGED pending
        ELSE
          /\ Len(pending) + Len(p.foundDays) <= MaxPending
          /\ nextId + queuedInserts + Len(p.foundDays) - 1 <= MaxId
          /\ pending' = pending \o addInserts(chat, raw, hostOffset)
          /\ sent' = <<Msg(chat, "reminderSet", 0, <<>>, p.foundDays,
                          timeStr(p.istTime, hostOffset), <<>>, <<>>)>>
     /\ UNCHANGED <<db, nextId, alive, hostOffset, clock>>

\* bot.onText(/\/listReminders/)
ListReminders(chat) ==
  /\ alive
  /\ Len(pending) < MaxPending
  /\ pending' = Append(pending, Stmt("list", chat, IntParam(0), <<>>, "", <<>>))
  /\ sent' = <<>>
  /\ ev' = Handled("list", chat, <<>>)
  /\ UNCHANGED <<db, nextId, alive, hostOffset, clock>>

\* bot.onText(/\/deleteReminder (\d+)/): digits is match[1].
DeleteReminder(chat, digits) ==
  /\ alive
  /\ Len(pending) < MaxPending
  /\ pending' = Append(pending, Stmt("delete", chat, IntParam(parseInt(digits)), <<>>, "", <<>>))
  /\ sent' = <<>>
  /\ ev' = Handled("delete", chat, digits)
  /\ UNCHANGED <<db, nextId, alive, hostOffset, clock>>

\* A forEach that stops after the first kept token.
deleteManyStmts_FirstOnly(chat, ids) ==
  [i \in 1..1 |-> Stmt("deleteMany", chat, TextParam(ids[i]), <<>>, "", <<>>)]

\* The deletes reminderIds.forEach queues, one per kept token.
deleteManyStmts(chat, ids) ==
  [i \in 1..Len(ids) |-> Stmt("deleteMany", chat, TextParam(ids[i]), <<>>, "", <<>>)]

\* bot.onText(/\/deleteReminders (.+)/i): arg is match[1].
DeleteReminders(chat, arg) ==
  LET ids == idsParsed[arg]
  IN /\ alive
     /\ ev' = Handled("deleteMany", chat, arg)
     /\ IF Len(ids) = 0 THEN
          /\ sent' = <<Reply(chat, "deleteManyInvalid")>>
          /\ UNCHANGED pending
        ELSE
          /\ Len(pending) + Len(ids) <= MaxPending
          /\ pending' = pending \o deleteManyStmts(chat, ids)
          /\ sent' = <<Msg(chat, "deleteManyOk", 0, ids, <<>>, <<>>, <<>>, <<>>)>>
     /\ UNCHANGED <<db, nextId, alive, hostOffset, clock>>

\* bot.onText(/\/updateReminder (\d+) (.+)/): digits is match[1], newMessage match[2].
UpdateReminder(chat, digits, newMessage) ==
  /\ alive
  /\ Len(pending) < MaxPending
  /\ pending' = Append(pending,
                  Stmt("update", chat, IntParam(parseInt(digits)), newMessage, "", <<>>))
  /\ sent' = <<>>
  /\ ev' = Handled("update", chat, digits)
  /\ UNCHANGED <<db, nextId, alive, hostOffset, clock>>

\* The setInterval callback: getDay is now.getDay(), currentTime the HH:MM read.
Tick(getDay, currentTime) ==
  /\ alive
  /\ Len(pending) < MaxPending
  /\ pending' = Append(pending,
                  Stmt("query", 0, IntParam(0), <<>>, daysOfWeek[getDay + 1], currentTime))
  /\ sent' = <<>>
  /\ ev' = Handled("tick", 0, <<>>)
  /\ UNCHANGED <<db, nextId, alive, hostOffset, clock>>

\* ------------------------------------------- the statements and callbacks
\* sqlite runs the queued statements one at a time, in an order the thread
\* pool decides; i is the index in pending of the one that runs.
Runs(i, op) == alive /\ i \in 1..Len(pending) /\ pending[i].op = op

\* The id of a plain INTEGER PRIMARY KEY: one more than the largest id in
\* the table now.
newId_LargestStoredPlusOne ==
  IF db = {} THEN 1 ELSE (CHOOSE r \in db : \A x \in db : x.id <= r.id).id + 1

\* The id INTEGER PRIMARY KEY AUTOINCREMENT gives a new row: one more than
\* the largest id the table has ever held.
newId == nextId

\* INSERT INTO reminders ...: no callback is passed.
InsertDone(i) ==
  /\ Runs(i, "insert")
  /\ LET o == pending[i]
     IN /\ db' = db \cup {Row(newId, o.chat_id, o.msg, o.day, o.time)}
        /\ ev' = Event("inserted", o.chat, <<>>, o, FALSE, 1)
  /\ nextId' = nextId + 1
  /\ pending' = without(pending, i)
  /\ sent' = <<>>
  /\ UNCHANGED <<alive, hostOffset, clock>>

\* A failed INSERT: db.run is given no callback, so sqlite3 emits "error" on
\* the statement, which has no listener; the emit throws and the uncaught
\* exception ends the process (crash), unless the runtime keeps it running.
InsertFailed(i, crash) ==
  /\ Runs(i, "insert")
  /\ ev' = Event("inserted", pending[i].chat, <<>>, pending[i], TRUE, 0)
  /\ pending' = without(pending, i)
  /\ sent' = <<>>
  /\ alive' = ~crash
  /\ UNCHANGED <<db, nextId, hostOffset, clock>>

\* The listing with its WHERE clause dropped.
owned_All(o) == db

\* The rows SELECT * FROM reminders WHERE chat_id = ? returns.
owned(o) == {r \in db : r.chat_id = o.chat_id}

\* The listing and its callback.
ListDone(i, err) ==
  /\ Runs(i, "list")
  /\ LET o == pending[i]
         rows == rowsInOrder(owned(o))
     IN /\ ev' = Event("listed", o.chat, <<>>, o, err, 0)
        /\ sent' = IF err THEN <<Reply(o.chat, "listError")>>
                   ELSE IF Len(rows) = 0 THEN <<Reply(o.chat, "listEmpty")>>
                   ELSE <<Msg(o.chat, "list", 0, <<>>, <<>>, <<>>, rows, <<>>)>>
  /\ pending' = without(pending, i)
  /\ UNCHANGED <<db, nextId, alive, hostOffset, clock>>

\* The WHERE clause without its chat_id condition.
target_AnyOwner(o) == {r \in db : r.id = sqlId(o.param)}

\* The rows DELETE / UPDATE ... WHERE id = ? AND chat_id = ? selects.
target(o) == {r \in db : r.id = sqlId(o.param) /\ r.chat_id = o.chat_id}

\* A DELETE that, once it finds its row, drops every row of the chat.
deleted_WholeChat(o) ==
  IF target(o) = {} THEN db ELSE {r \in db : r.chat_id # o.chat_id}

\* The table after DELETE FROM reminders WHERE id = ? AND chat_id = ?.
deleted(o) == db \ target(o)

\* An UPDATE that sets the message of every row of the chat.
updated_AllOfChat(o) ==
  IF target(o) = {} THEN db
  ELSE {IF r.chat_id = o.chat_id THEN [r EXCEPT !.message = o.msg] ELSE r : r \in db}

\* The table after UPDATE reminders SET message = ? WHERE id = ? AND chat_id = ?.
updated(o) == (db \ target(o)) \cup {[r EXCEPT !.message = o.msg] : r \in target(o)}

\* DELETE of /deleteReminder and its callback.
DeleteDone(i, err) ==
  /\ Runs(i, "delete")
  /\ LET o == pending[i]
         changes == IF err THEN 0 ELSE Cardinality(target(o))
     IN /\ db' = IF err THEN db ELSE deleted(o)
        /\ ev' = Event("deleted", o.chat, <<>>, o, err, changes)
        /\ sent' = IF err THEN <<Reply(o.chat, "deleteError")>>
                   ELSE IF changes = 0 THEN <<ReplyId(o.chat, "notFound", o.param.n)>>
                   ELSE <<ReplyId(o.chat, "deleted", o.param.n)>>
  /\ pending' = without(pending, i)
  /\ UNCHANGED <<nextId, alive, hostOffset, clock>>

\* One DELETE of /deleteReminders and its callback.
DeleteManyDone(i, err) ==
  /\ Runs(i, "deleteMany")
  /\ LET o == pending[i]
         changes == IF err THEN 0 ELSE Cardinality(target(o))
     IN /\ db' = IF err THEN db ELSE deleted(o)
        /\ ev' = Event("deletedOne", o.chat, <<>>, o, err, changes)
        /\ sent' = IF err
                   THEN <<Msg(o.chat, "deleteManyFailed", 0, <<o.param.s>>, <<>>, <<>>, <<>>, <<>>)>>
                   ELSE <<>>
  /\ pending' = without(pending, i)
  /\ UNCHANGED <<nextId, alive, hostOffset, clock>>

\* UPDATE reminders SET message = ? ... and its callback.
UpdateDone(i, err) ==
  /\ Runs(i, "update")
  /\ LET o == pending[i]
         changes == IF err THEN 0 ELSE Cardinality(target(o))
     IN /\ db' = IF err THEN db ELSE updated(o)
        /\ ev' = Event("updated", o.chat, <<>>, o, err, changes)
        /\ sent' = IF err THEN <<Reply(o.chat, "updateError")>>
                   ELSE IF changes = 0 THEN <<ReplyId(o.chat, "notFound", o.param.n)>>
                   ELSE <<ReplyId(o.chat, "updated", o.param.n)>>
  /\ pending' = without(pending, i)
  /\ UNCHANGED <<nextId, alive, hostOffset, clock>>

\* bot.sendMessage(row.chat_id, `Reminder: ${row.message}`): Telegram
\* addresses the chat whose id the string spells.
reminderFor(row) ==
  Msg(parseInt(row.chat_id), "reminder", 0, <<>>, <<>>, <<>>, <<>>, row.message)

\* The query with the time dropped from its WHERE clause.
due_DayOnly(o) == {r \in db : r.day_of_week = o.day}

\* The rows SELECT * FROM reminders WHERE day_of_week = ? AND time = ? returns.
due(o) == {r \in db : r.day_of_week = o.day /\ r.time = o.time}

\* A callback that drops the rows it delivered.
kept_Undelivered(o) == db \ due(o)

\* The table after the scheduler's callback: rows.forEach only sends, no
\* statement writes the table.
kept(o) == db

\* The scheduler's query and its callback.
QueryDone(i, err) ==
  /\ Runs(i, "query")
  /\ LET o == pending[i]
         rows == rowsInOrder(due(o))
     IN /\ ev' = Event("queried", 0, <<>>, o, err, 0)
        /\ sent' = IF err THEN <<>> ELSE [k \in 1..Len(rows) |-> reminderFor(rows[k])]
        /\ db' = kept(o)
  /\ pending' = without(pending, i)
  /\ UNCHANGED <<nextId, alive, hostOffset, clock>>

\* A bot.sendMessage of the last step is rejected by Telegram: no call has a
\* then or a catch, so nothing in the program reacts; the promise library
\* of the transport reports the unhandled rejection on stderr.
SendRejected ==
  /\ alive
  /\ sent # <<>>
  /\ sent' = <<>>
  /\ ev' = Handled("sendRejected", 0, <<>>)
  /\ UNCHANGED <<db, nextId, pending, alive, hostOffset, clock>>

\* bot.on("polling_error") / bot.on("webhook_error"): console.error only.
PollingError ==
  /\ alive
  /\ sent' = <<>>
  /\ ev' = Handled("pollingError", 0, <<>>)
  /\ UNCHANGED <<db, nextId, pending, alive, hostOffset, clock>>

Next ==
  \/ \E c \in Chats : Start(c)
  \/ \E c \in Chats, raw \in AddTexts : AddReminder(c, raw)
  \/ \E c \in Chats : ListReminders(c)
  \/ \E c \in Chats, d \in IdTexts : DeleteReminder(c, d)
  \/ \E c \in Chats, arg \in DeleteManyTexts : DeleteReminders(c, arg)
  \/ \E c \in Chats, d \in IdTexts, m \in UpdateTexts : UpdateReminder(c, d, m)
  \/ \E wd \in TickDays, t \in TickTimes : Tick(wd, t)
  \/ \E i \in 1..MaxPending : InsertDone(i)
  \/ \E i \in 1..MaxPending, crash \in BOOLEAN : InsertFailed(i, crash)
  \/ \E i \in 1..MaxPending, err \in BOOLEAN : ListDone(i, err)
  \/ \E i \in 1..MaxPending, err \in BOOLEAN : DeleteDone(i, err)
  \/ \E i \in 1..MaxPending, err \in BOOLEAN : DeleteManyDone(i, err)
  \/ \E i \in 1..MaxPending, err \in BOOLEAN : UpdateDone(i, err)
  \/ \E i \in 1..MaxPending, err \in BOOLEAN : QueryDone(i, err)
  \/ SendRejected
  \/ PollingError

\* The bot on a host in IST.
Spec == Init /\ [][Next]_vars

\* /addReminder alone, over every text of the model.
NextAdd ==
  \/ \E c \in Chats, raw \in AllAddTexts : AddReminder(c, raw)
  \/ \E i \in 1..MaxPending : InsertDone(i)
  \/ \E i \in 1..MaxPending, crash \in BOOLEAN : InsertFailed(i, crash)

SpecAdd == Init /\ [][NextAdd]_vars

\* /deleteReminders over every argument text of the model, on stores that
\* /addReminder filled.
NextDeleteMany ==
  \/ \E c \in Chats, raw \in AcceptedTexts : AddReminder(c, raw)
  \/ \E i \in 1..MaxPending : InsertDone(i)
  \/ \E c \in Chats, arg \in AllDeleteManyTexts : DeleteReminders(c, arg)
  \/ \E i \in 1..MaxPending, err \in BOOLEAN : DeleteManyDone(i, err)

SpecDeleteMany == Init /\ [][NextDeleteMany]_vars

\* The scheduler alone, on stores that /addReminder filled.
NextTick ==
  \/ \E c \in Chats, raw \in AcceptedTexts \cup MoreAcceptedTexts : AddReminder(c, raw)
  \/ \E i \in 1..MaxPending : InsertDone(i)
  \/ \E wd \in AllTickDays, t \in AllTickTimes : Tick(wd, t)
  \/ \E i \in 1..MaxPending, err \in BOOLEAN : QueryDone(i, err)

SpecTick == Init /\ [][NextTick]_vars

\* /deleteReminder alone, on stores that /addReminder filled.
NextDelete ==
  \/ \E c \in Chats, raw \in AcceptedTexts : AddReminder(c, raw)
  \/ \E i \in 1..MaxPending : InsertDone(i)
  \/ \E c \in Chats, d \in IdTexts : DeleteReminder(c, d)
  \/ \E i \in 1..MaxPending, err \in BOOLEAN : DeleteDone(i, err)

SpecDelete == Init /\ [][NextDelete]_vars

\* /updateReminder alone, on stores that /addReminder filled.
NextUpdate ==
  \/ \E c \in Chats, raw \in AcceptedTexts : AddReminder(c, raw)
  \/ \E i \in 1..MaxPending : InsertDone(i)
  \/ \E c \in Chats, d \in IdTexts, m \in UpdateTexts : UpdateReminder(c, d, m)
  \/ \E i \in 1..MaxPending, err \in BOOLEAN : UpdateDone(i, err)

SpecUpdate == Init /\ [][NextUpdate]_vars

\* ------------------------------------------------------------------ claims
\* How many of the sendMessage calls of the last step are m.
count(m) == Cardinality({i \in 1..Len(sent) : sent[i] = m})

\* C1: a scheduler query for day d and time t that the store answers sends
\* one reminder to the owner of every stored row whose day_of_week is d and
\* whose time is t, with that row's message, and nothing else: no row whose
\* day or time differs is delivered.
C1_TickDeliversExactlyDue ==
  (ev.act = "queried" /\ ~ev.err) =>
    LET hit == {r \in db : r.day_of_week = ev.stmt.day /\ r.time = ev.stmt.time}
    IN /\ Len(sent) = Cardinality(hit)
       /\ \A i \in 1..Len(sent) :
            /\ sent[i].kind = "reminder"
            /\ count(sent[i]) =
                 Cardinality({r \in hit : toString(sent[i].to) = r.chat_id
                                          /\ r.message = sent[i].text})
       /\ \A r \in hit : \E i \in 1..Len(sent) :
            toString(sent[i].to) = r.chat_id /\ sent[i].text = r.message

\* A tick delivered one owner's due row and left another owner's row, set
\* for another day, undelivered.
C1_Witness ==
  /\ ev.act = "queried" /\ ~ev.err
  /\ Len(sent) = 1
  /\ \E r1, r2 \in db :
       /\ r1.day_of_week = ev.stmt.day /\ r1.time = ev.stmt.time
       /\ r2.day_of_week # ev.stmt.day /\ r2.chat_id # r1.chat_id
       /\ toString(sent[1].to) = r1.chat_id

\* The rows of the table that chat c owns.
rowsOf(c) == {r \in db : r.chat_id = toString(c)}

\* C2: a /deleteReminder <id> of chat c that the store runs removes the row
\* with that id when it exists and c owns it, leaves every other row as it
\* was and replies "deleted"; when no row has the id, or another chat owns
\* it, the table is unchanged (the row is still its owner's) and the reply
\* is "not found".
C2_DeleteOwnedOrNotFound ==
  [][(ev'.act = "deleted" /\ ~ev'.err) =>
       LET id == ev'.stmt.param.n
           c == ev'.chat
           own == {r \in db : r.id = id /\ r.chat_id = toString(c)}
       IN IF own # {}
          THEN /\ db' = db \ own
               /\ sent' = <<ReplyId(c, "deleted", id)>>
          ELSE /\ db' = db
               /\ \A b \in Chats : rowsOf(b)' = rowsOf(b)
               /\ sent' = <<ReplyId(c, "notFound", id)>>]_vars

\* A chat was told "not found" for the id of a row another chat owns; the
\* row is still there.
C2_Witness ==
  /\ ev.act = "deleted" /\ ~ev.err /\ ev.changes = 0
  /\ sent = <<ReplyId(ev.chat, "notFound", ev.stmt.param.n)>>
  /\ \E r \in db : r.id = ev.stmt.param.n /\ r.chat_id # toString(ev.chat)

\* A step of chat a: one of its handlers, or a statement with its callback
\* that one of its handlers queued.
stepOf(a) == ev'.chat = a

\* C3 as stated: nothing chat a does changes what another chat b has or is
\* shown, the ids of the rows b creates later included: a step of a leaves
\* b's rows and the id the table gives the next row as they were, and a
\* listing shows a chat its own rows only.
C3_IsolationIncludingIds ==
  [][\A a, b \in Chats :
       (a # b /\ stepOf(a)) => (rowsOf(b)' = rowsOf(b) /\ nextId' = nextId)]_vars

\* C3 as the code has it: no step of chat a creates, changes or removes a
\* row of another chat b, and a listing the store answers shows the chat
\* that asked exactly its own rows; only the id counter is shared.
C3_OwnerIsolation ==
  [][/\ \A a, b \in Chats : (a # b /\ stepOf(a)) => rowsOf(b)' = rowsOf(b)
     /\ (ev'.act = "listed" /\ ~ev'.err) =>
          /\ Len(sent') = 1 /\ sent'[1].to = ev'.chat
          /\ {sent'[1].rows[k] : k \in 1..Len(sent'[1].rows)} = rowsOf(ev'.chat)
          /\ Len(sent'[1].rows) = Cardinality(rowsOf(ev'.chat))]_vars

\* A chat was shown its listing while the table also holds a row of another
\* chat.
C3_Witness ==
  /\ ev.act = "listed" /\ ~ev.err
  /\ Len(sent) = 1 /\ sent[1].kind = "list"
  /\ \E r \in db : r.chat_id # toString(ev.chat)

\* The day names that occur in the day/time part of match[1].
namedDays(raw) ==
  LET part == dayTimePart(toLowerCase(raw))
  IN {part[k] : k \in 1..Len(part)} \cap {daysOfWeek[k] : k \in 1..Len(daysOfWeek)}

\* The statements the step queued.
queued == SubSeq(pending', Len(pending) + 1, Len(pending'))

\* C4: an accepted /addReminder of chat c whose day/time part names N
\* distinct days, in any order and however often, queues exactly N inserts,
\* one per named day, all for c with the same message and the same
\* normalized time, and every insert the store performs adds exactly one
\* row, with the fields of its statement and an id no other row has.
C4_OneReminderPerNamedDay ==
  [][/\ (ev'.act = "add" /\ Len(sent') = 1 /\ sent'[1].kind = "reminderSet") =>
          /\ Len(pending') = Len(pending) + Cardinality(namedDays(ev'.arg))
          /\ SubSeq(pending', 1, Len(pending)) = pending
          /\ {queued[k].day : k \in 1..Len(queued)} = namedDays(ev'.arg)
          /\ \A k \in 1..Len(queued) :
               /\ queued[k].op = "insert"
               /\ queued[k].chat_id = toString(ev'.chat)
               /\ queued[k].msg = queued[1].msg
               /\ queued[k].time = queued[1].time
               /\ queued[k].time = sent'[1].time
     /\ (ev'.act = "inserted" /\ ~ev'.err) =>
          \E r \in db' :
            /\ db' = db \cup {r}
            /\ \A x \in db : x.id # r.id
            /\ r.chat_id = ev'.stmt.chat_id /\ r.message = ev'.stmt.msg
            /\ r.day_of_week = ev'.stmt.day /\ r.time = ev'.stmt.time]_vars

\* Both inserts of one two-day /addReminder have run: two rows of one chat,
\* for different days, with the same message and time and different ids.
C4_Witness ==
  /\ ev.act = "inserted" /\ ~ev.err /\ pending = <<>>
  /\ \E r1, r2 \in db :
       /\ r1.id # r2.id /\ r1.day_of_week # r2.day_of_week
       /\ r1.chat_id = r2.chat_id /\ r1.message = r2.message /\ r1.time = r2.time
       /\ db = {r1, r2}

\* The atoms of a text, lower-cased.
atomsOf(raw) == {LowerAtom(raw[k]) : k \in 1..Len(raw)}

\* C5: an /addReminder whose text lacks "every", names no day in its
\* day/time part or has no time that parses changes nothing in the store,
\* queues no statement, and sends the chat one error reply and no
\* confirmation.
C5_RejectedAddChangesNothing ==
  [][(/\ ev'.act = "add"
      /\ \/ "every" \notin atomsOf(ev'.arg)
         \/ namedDays(ev'.arg) = {}
         \/ parsedTime(toLowerCase(ev'.arg)) = NoTime) =>
       /\ db' = db /\ nextId' = nextId /\ pending' = pending
       /\ Len(sent') = 1
       /\ sent'[1].to = ev'.chat
       /\ sent'[1].kind =
            IF "every" \notin atomsOf(ev'.arg) THEN "errNoEvery"
            ELSE IF namedDays(ev'.arg) = {} THEN "errNoDays"
            ELSE "errNoTime"]_vars

\* An /addReminder with a day and a time token chrono does not parse was
\* refused while the table held a row.
C5_Witness ==
  /\ ev.act = "add" /\ sent = <<Reply(ev.chat, "errNoTime")>>
  /\ "99pm" \in atomsOf(ev.arg)
  /\ db # {}

\* C6: an /updateReminder <id> <msg> of chat c that the store runs when no
\* row with that id is owned by c (the id is absent, or another chat's)
\* replies "not found" and leaves the store exactly as it was.
C6_UpdateNotFound ==
  [][(/\ ev'.act = "updated" /\ ~ev'.err
      /\ ~\E r \in db : r.id = ev'.stmt.param.n /\ r.chat_id = toString(ev'.chat)) =>
       /\ db' = db /\ nextId' = nextId
       /\ sent' = <<ReplyId(ev'.chat, "notFound", ev'.stmt.param.n)>>]_vars

\* A chat was told "not found" for an update of a row another chat owns,
\* and the row still has the message it was created with.
C6_Witness ==
  /\ ev.act = "updated" /\ ~ev.err /\ ev.changes = 0
  /\ sent = <<ReplyId(ev.chat, "notFound", ev.stmt.param.n)>>
  /\ \E r \in db : /\ r.id = ev.stmt.param.n /\ r.chat_id # toString(ev.chat)
                   /\ r.message # ev.stmt.msg

\* The row of the table with id i.
rowWithId(t, i) == CHOOSE r \in t : r.id = i

\* C7: an /updateReminder that finds its row replaces the message of that
\* one row and nothing else in the table; and no step at all changes the
\* id, owner, day, time or recurring flag of a row that stays in the table,
\* nor its message unless the step is that update by the row's owner.
C7_UpdateChangesMessageOnly ==
  [][/\ (ev'.act = "updated" /\ ~ev'.err /\ ev'.changes # 0) =>
          \E r \in db :
            /\ r.id = ev'.stmt.param.n /\ r.chat_id = toString(ev'.chat)
            /\ db' = (db \ {r}) \cup {[r EXCEPT !.message = ev'.stmt.msg]}
            /\ sent' = <<ReplyId(ev'.chat, "updated", r.id)>>
     /\ \A r \in db :
          (\E x \in db' : x.id = r.id) =>
            LET x == rowWithId(db', r.id)
            IN /\ Cardinality({y \in db' : y.id = r.id}) = 1
               /\ x.chat_id = r.chat_id /\ x.day_of_week = r.day_of_week
               /\ x.time = r.time /\ x.recurring = r.recurring
               /\ x.message # r.message =>
                    /\ ev'.act = "updated" /\ ev'.stmt.param.n = r.id
                    /\ toString(ev'.chat) = r.chat_id /\ x.message = ev'.stmt.msg]_vars

\* An update replaced the message of one row while the same chat's other
\* row kept its own.
C7_Witness ==
  /\ ev.act = "updated" /\ ~ev.err /\ ev.changes = 1
  /\ \E r1, r2 \in db :
       /\ r1.id = ev.stmt.param.n /\ r1.message = ev.stmt.msg
       /\ r2.id # r1.id /\ r2.chat_id = r1.chat_id /\ r2.message # ev.stmt.msg

\* The comma-separated tokens of an argument, trimmed, that are integers.
integerTokens(arg) ==
  LET toks == split(arg, ",")
      trimmed == [k \in 1..Len(toks) |-> trim(toks[k])]
  IN SelectSeq(trimmed, isDigits)

\* C8: /deleteReminders attempts a delete for exactly the tokens of its
\* argument that are integers, dropping every other token, the empty one
\* included, and with no integer token it replies with the error and
\* queues no delete.
C8_OnlyIntegerTokensAttempted ==
  [][ev'.act = "deleteMany" =>
       IF integerTokens(ev'.arg) = <<>>
       THEN pending' = pending /\ sent' = <<Reply(ev'.chat, "deleteManyInvalid")>>
       ELSE /\ Len(pending') = Len(pending) + Len(integerTokens(ev'.arg))
            /\ \A k \in 1..Len(integerTokens(ev'.arg)) :
                 /\ pending'[Len(pending) + k].op = "deleteMany"
                 /\ pending'[Len(pending) + k].param.s = integerTokens(ev'.arg)[k]]_vars

\* The requesting chat was sent a failure notice in the last step.
failureNotice ==
  \E k \in 1..Len(sent) :
    /\ sent[k].to = ev.chat
    /\ sent[k].kind \in {"listError", "deleteError", "deleteManyFailed", "updateError"}

\* C9: whenever a statement queued for a chat's command fails, that chat is
\* sent a failure notice.
C9_EveryFaultReported == (ev.err /\ ev.chat \in Chats) => failureNotice

\* C10: the process is still running after a statement failed, a
\* sendMessage was rejected or the transport reported a polling error.
C10_NoFailureStopsTheBot ==
  (ev.err \/ ev.act \in {"sendRejected", "pollingError"}) => alive

\* ----------------------------------------------- the host's time zone
\* What the scheduler may read on a host in IST and on a host in UTC.
AnyHostTickTimes == {<<20, 0>>, <<14, 30>>}

\* /addReminder and the scheduler on a host in any time zone of the model.
NextAnyHost ==
  \/ \E c \in Chats, raw \in AcceptedTexts : AddReminder(c, raw)
  \/ \E i \in 1..MaxPending : InsertDone(i)
  \/ \E wd \in AllTickDays, t \in AnyHostTickTimes : Tick(wd, t)
  \/ \E i \in 1..MaxPending, err \in BOOLEAN : QueryDone(i, err)

SpecAnyHost == InitAnyHost /\ [][NextAnyHost]_vars

\* The time the user typed, as 24-hour <<HH, MM>>.
typedTime(raw) ==
  LET m == parsedTime(toLowerCase(raw)) IN <<m \div 60, m % 60>>

\* C11: on a host at any UTC offset, every insert an accepted /addReminder
\* queues carries the wall-clock time the user typed as 24-hour HH:MM
\* ("8pm" is stored as 20:00), every stored row has the time of its insert,
\* and that stored time is what the scheduler's query is compared with.
C11_StoresTypedTime ==
  [][/\ (ev'.act = "add" /\ Len(sent') = 1 /\ sent'[1].kind = "reminderSet") =>
          \A k \in 1..Len(queued) : queued[k].time = typedTime(ev'.arg)
     /\ (ev'.act = "inserted" /\ ~ev'.err) =>
          \E r \in db' \ db : r.time = ev'.stmt.time
     /\ (ev'.act = "queried" /\ ~ev'.err) =>
          \A r \in db : r.day_of_week = ev'.stmt.day =>
            ((\E k \in 1..Len(sent') : sent'[k].text = r.message
                                        /\ toString(sent'[k].to) = r.chat_id)
               <=> r.time = ev'.stmt.time)]_vars

\* The text after the first "every".
afterFirstEvery(text) == SubSeq(text, IndexOf(text, "every") + 1, Len(text))
beforeFirstEvery(text) == SubSeq(text, 1, IndexOf(text, "every") - 1)

\* C12: the text is split at its first "every" only: when the text after
\* the first "every", all of it, names a day and holds a time token that
\* parses, the add is accepted, with one insert per day named anywhere
\* after the first "every" and with the text before it, less a leading
\* "remind" and the surrounding spaces, as the message.
C12_SplitsOnFirstEveryOnly ==
  [][(ev'.act = "add" /\ "every" \in atomsOf(ev'.arg)) =>
       LET text == toLowerCase(ev'.arg)
           rest == trim(afterFirstEvery(text))
           days == {rest[k] : k \in 1..Len(rest)} \cap {daysOfWeek[k] : k \in 1..Len(daysOfWeek)}
           time == parseDate(join(SelectSeq(split(rest, SP), matchesTime), <<SP>>))
       IN (days # {} /\ time # NoTime) =>
            /\ Len(sent') = 1 /\ sent'[1].kind = "reminderSet"
            /\ {queued[k].day : k \in 1..Len(queued)} = days
            /\ \A k \in 1..Len(queued) :
                 queued[k].msg = trim(stripRemind(beforeFirstEvery(text)))]_vars

\* ------------------------------------------------- the rows of one add
\* The accepted texts that name more than one day.
MultiDayTexts == {raw \in AcceptedTexts : Len(addParsed[raw].foundDays) > 1}

\* Multi-day /addReminder with listings and scheduler ticks in between.
NextAddGroup ==
  \/ \E c \in Chats, raw \in MultiDayTexts : AddReminder(c, raw)
  \/ \E i \in 1..MaxPending : InsertDone(i)
  \/ \E i \in 1..MaxPending, crash \in BOOLEAN : InsertFailed(i, crash)
  \/ \E c \in Chats : ListReminders(c)
  \/ \E i \in 1..MaxPending, err \in BOOLEAN : ListDone(i, err)
  \/ \E wd \in TickDays, t \in TickTimes : Tick(wd, t)
  \/ \E i \in 1..MaxPending, err \in BOOLEAN : QueryDone(i, err)

SpecAddGroup == Init /\ [][NextAddGroup]_vars

\* How many rows chat c has with the message of text raw for day d.
groupRows(c, raw, d) ==
  Cardinality({r \in db : /\ r.chat_id = toString(c)
                          /\ r.message = addParsed[raw].messagePart
                          /\ r.day_of_week = d})

\* Every multi-day add of every chat has all of its rows in the table or
\* none: the chat has as many rows for one day of the text as for another.
groupsWhole ==
  \A c \in Chats, raw \in MultiDayTexts :
    \A j, k \in 1..Len(addParsed[raw].foundDays) :
      groupRows(c, raw, addParsed[raw].foundDays[j]) =
        groupRows(c, raw, addParsed[raw].foundDays[k])

\* C13: the rows of one multi-day /addReminder are created as a group: the
\* table a listing or a scheduler query reads holds all rows of an add or
\* none of them, and so does the table once no insert is queued any more,
\* whether or not an insert failed.
C13_AddIsAtomic ==
  ((ev.act \in {"listed", "queried"} /\ ~ev.err) \/ queuedInserts = 0) => groupsWhole

\* C14: a /deleteReminders of chat c that is not refused queues exactly one
\* delete per attempted id, in order, each scoped to c, and replies at once
\* with one message naming all attempted ids, whatever rows the table
\* holds; a delete the store runs removes the row with that id only when c
\* owns it and sends nothing.
C14_DeleteManyAttemptsAndNamesAll ==
  [][/\ (ev'.act = "deleteMany" /\ reminderIds(ev'.arg) # <<>>) =>
          LET ids == reminderIds(ev'.arg)
          IN /\ SubSeq(pending', 1, Len(pending)) = pending
             /\ Len(queued) = Len(ids)
             /\ \A k \in 1..Len(ids) :
                  /\ queued[k].op = "deleteMany"
                  /\ queued[k].chat_id = toString(ev'.chat)
                  /\ queued[k].param = TextParam(ids[k])
             /\ Len(sent') = 1
             /\ sent'[1].to = ev'.chat /\ sent'[1].kind = "deleteManyOk"
             /\ sent'[1].ids = ids
             /\ db' = db
     /\ (ev'.act = "deletedOne" /\ ~ev'.err) =>
          /\ db' = {r \in db : ~(r.id = sqlId(ev'.stmt.param)
                                  /\ r.chat_id = toString(ev'.chat))}
          /\ sent' = <<>>]_vars

\* A chat was told two ids were deleted, one of a row it owns and one of a
\* row another chat owns, both still in the table.
C14_Witness ==
  /\ ev.act = "deleteMany"
  /\ Len(sent) = 1 /\ sent[1].kind = "deleteManyOk" /\ Len(sent[1].ids) = 2
  /\ \E r1, r2 \in db :
       /\ r1.chat_id = toString(ev.chat) /\ r2.chat_id # toString(ev.chat)
       /\ \E j, k \in 1..2 : /\ parseInt(sent[1].ids[j]) = r1.id
                             /\ parseInt(sent[1].ids[k]) = r2.id

\* ------------------------------------------------------------ listings
\* /listReminders alone, on stores that /addReminder filled.
NextList ==
  \/ \E c \in Chats, raw \in AcceptedTexts : AddReminder(c, raw)
  \/ \E i \in 1..MaxPending : InsertDone(i)
  \/ \E c \in Chats : ListReminders(c)
  \/ \E i \in 1..MaxPending, err \in BOOLEAN : ListDone(i, err)

SpecList == Init /\ [][NextList]_vars

\* C15: neither the /listReminders handler nor its query changes the
\* store, and what an answered listing shows is determined by the table and
\* the chat alone: exactly the chat's rows, each once, by ascending id (the
\* "no reminders" reply when it has none); so two listings with no
\* mutation between them show the same reminders in the same order.
C15_ListReadOnlyAndRepeatable ==
  [][/\ ev'.act \in {"list", "listed"} => (db' = db /\ nextId' = nextId)
     /\ (ev'.act = "listed" /\ ~ev'.err) =>
          /\ Len(sent') = 1 /\ sent'[1].to = ev'.chat
          /\ IF rowsOf(ev'.chat) = {} THEN sent'[1] = Reply(ev'.chat, "listEmpty")
             ELSE /\ sent'[1].kind = "list"
                  /\ {sent'[1].rows[k] : k \in 1..Len(sent'[1].rows)} = rowsOf(ev'.chat)
                  /\ \A j, k \in 1..Len(sent'[1].rows) :
                       j < k => sent'[1].rows[j].id < sent'[1].rows[k].id]_vars

\* A chat was shown its two reminders while a second listing of the same
\* chat is queued.
C15_Witness ==
  /\ ev.act = "listed" /\ ~ev.err
  /\ Len(sent) = 1 /\ sent[1].kind = "list" /\ Len(sent[1].rows) = 2
  /\ \E i \in 1..Len(pending) : pending[i].op = "list" /\ pending[i].chat = ev.chat

\* ------------------------------------------------ the dispatch of a message
\* Message texts as Telegram delivers them: one command each, one that is no
\* command, and texts in which a second command name occurs.
MessageTexts == {
  <<"/start">>,
  <<"/addReminder", SP, "walk", SP, "every", SP, "wednesday", SP, "8pm">>,
  <<"/listReminders">>,
  <<"/deleteReminder", SP, "1">>,
  <<"/deleteReminders", SP, "2", ",", SP, "1">>,
  <<"/updateReminder", SP, "1", SP, "new">>,
  <<"hello">>,
  <<"/deleteReminder", SP, "abc">>,
  <<"/start", SP, "/addReminder", SP, "walk", SP, "every", SP, "wednesday", SP, "8pm">>,
  <<"/updateReminder", SP, "1", SP, "/listReminders">> }

\* The run of decimal digits of text that starts at index i: what (\d+)
\* matches there.
RECURSIVE digitsFrom(_, _)
digitsFrom(text, i) ==
  IF i <= Len(text) /\ text[i] \in Digits
  THEN <<text[i]>> \o digitsFrom(text, i + 1)
  ELSE <<>>

\* The text from index i to its end: what (.+) matches there.
restFrom(text, i) == SubSeq(text, i, Len(text))

\* RegExp.prototype.exec: the leftmost index at which the pattern matches,
\* 0 for null.  No pattern is anchored.
firstOf(S) == IF S = {} THEN 0 ELSE CHOOSE i \in S : \A j \in S : i <= j
\* /\/start/
startAt(text) == firstOf({i \in 1..Len(text) : text[i] = "/start"})
\* /\/addReminder (.+)/i
addAt(text) ==
  firstOf({i \in 1..Len(text) :
             /\ text[i] = "/addReminder"
             /\ i + 2 <= Len(text) /\ text[i + 1] = SP})
\* /\/listReminders/
listAt(text) == firstOf({i \in 1..Len(text) : text[i] = "/listReminders"})
\* /\/deleteReminder (\d+)/
deleteAt(text) ==
  firstOf({i \in 1..Len(text) :
             /\ text[i] = "/deleteReminder"
             /\ i + 2 <= Len(text) /\ text[i + 1] = SP
             /\ digitsFrom(text, i + 2) # <<>>})
\* /\/deleteReminders (.+)/i
deleteManyAt(text) ==
  firstOf({i \in 1..Len(text) :
             /\ text[i] = "/deleteReminders"
             /\ i + 2 <= Len(text) /\ text[i + 1] = SP})
\* /\/updateReminder (\d+) (.+)/
updateAt(text) ==
  firstOf({i \in 1..Len(text) :
             /\ text[i] = "/updateReminder"
             /\ i + 2 <= Len(text) /\ text[i + 1] = SP
             /\ LET d == digitsFrom(text, i + 2)
                IN /\ d # <<>>
                   /\ i + 2 + Len(d) + 1 <= Len(text)
                   /\ text[i + 2 + Len(d)] = SP})

\* What each callback sends at once and what it queues, given its match.
startReplies(chat) == <<Reply(chat, "welcome")>>
addReplies(chat, raw, off) ==
  LET p == addParsed[raw]
  IN IF p.why = "noEvery" THEN <<Reply(chat, "errNoEvery")>>
     ELSE IF p.why = "noDays" THEN <<Reply(chat, "errNoDays")>>
     ELSE IF p.why = "noTime" THEN <<Reply(chat, "errNoTime")>>
     ELSE <<Msg(chat, "reminderSet", 0, <<>>, p.foundDays, timeStr(p.istTime, off),
                <<>>, <<>>)>>
addStmts(chat, raw, off) ==
  IF addParsed[raw].why = "" THEN addInserts(chat, raw, off) ELSE <<>>
listStmts(chat) == <<Stmt("list", chat, IntParam(0), <<>>, "", <<>>)>>
deleteStmts(chat, digits) ==
  <<Stmt("delete", chat, IntParam(parseInt(digits)), <<>>, "", <<>>)>>
deleteManyReplies(chat, arg) ==
  IF Len(idsParsed[arg]) = 0 THEN <<Reply(chat, "deleteManyInvalid")>>
  ELSE <<Msg(chat, "deleteManyOk", 0, idsParsed[arg], <<>>, <<>>, <<>>, <<>>)>>
updateStmts(chat, digits, newMessage) ==
  <<Stmt("update", chat, IntParam(parseInt(digits)), newMessage, "", <<>>)>>

\* The statements and the replies of every callback whose pattern matches
\* the text, in the order the callbacks were registered: the library tries
\* each registered pattern and calls the callback of every one that matches.
dispatchStmts(chat, text, off) ==
  (IF addAt(text) # 0 THEN addStmts(chat, restFrom(text, addAt(text) + 2), off) ELSE <<>>)
  \o (IF listAt(text) # 0 THEN listStmts(chat) ELSE <<>>)
  \o (IF deleteAt(text) # 0
      THEN deleteStmts(chat, digitsFrom(text, deleteAt(text) + 2)) ELSE <<>>)
  \o (IF deleteManyAt(text) # 0
      THEN deleteManyStmts(chat, idsParsed[restFrom(text, deleteManyAt(text) + 2)])
      ELSE <<>>)
  \o (IF updateAt(text) # 0
      THEN LET d == digitsFrom(text, updateAt(text) + 2)
           IN updateStmts(chat, d, restFrom(text, updateAt(text) + 3 + Len(d)))
      ELSE <<>>)
dispatchReplies(chat, text, off) ==
  (IF startAt(text) # 0 THEN startReplies(chat) ELSE <<>>)
  \o (IF addAt(text) # 0 THEN addReplies(chat, restFrom(text, addAt(text) + 2), off) ELSE <<>>)
  \o (IF deleteManyAt(text) # 0
      THEN deleteManyReplies(chat, restFrom(text, deleteManyAt(text) + 2)) ELSE <<>>)

\* A text message arrives from chat: processUpdate runs the callbacks.
Receive(chat, text) ==
  LET stmts == dispatchStmts(chat, text, hostOffset)
      inserts == Len(SelectSeq(stmts, LAMBDA o : o.op = "insert"))
  IN /\ alive
     /\ Len(pending) + Len(stmts) <= MaxPending
     /\ inserts > 0 => nextId + queuedInserts + inserts - 1 <= MaxId
     /\ pending' = pending \o stmts
     /\ sent' = dispatchReplies(chat, text, hostOffset)
     /\ ev' = Handled("message", chat, text)
     /\ UNCHANGED <<db, nextId, alive, hostOffset, clock>>

\* The bot fed with message texts.
NextDispatch ==
  \/ \E c \in Chats, text \in MessageTexts : Receive(c, text)
  \/ \E i \in 1..MaxPending : InsertDone(i)
  \/ \E i \in 1..MaxPending, err \in BOOLEAN : ListDone(i, err)
  \/ \E i \in 1..MaxPending, err \in BOOLEAN : DeleteDone(i, err)
  \/ \E i \in 1..MaxPending, err \in BOOLEAN : DeleteManyDone(i, err)
  \/ \E i \in 1..MaxPending, err \in BOOLEAN : UpdateDone(i, err)

SpecDispatch == Init /\ [][NextDispatch]_vars

\* The commands the step executed, told by what each one sends or queues.
executed ==
  {h \in {"start", "add", "list", "delete", "deleteMany", "update"} :
     \/ \E k \in 1..Len(sent') :
          \/ h = "start" /\ sent'[k].kind = "welcome"
          \/ h = "add" /\ sent'[k].kind \in {"errNoEvery", "errNoDays", "errNoTime",
                                             "reminderSet"}
          \/ h = "deleteMany" /\ sent'[k].kind \in {"deleteManyInvalid", "deleteManyOk"}
     \/ \E k \in 1..Len(queued) : h \in {"list", "delete", "update"} /\ queued[k].op = h}

\* C16: one message text runs at most one of the start, add, list, delete,
\* delete-many and update handlers.
C16_OneIntentPerMessage ==
  [][ev'.act = "message" => Cardinality(executed) <= 1]_vars

\* The rows with the id a reply names that the chat it went to owns.
stillStored(to, param) ==
  {r \in db : r.id = sqlId(param) /\ r.chat_id = toString(to)}

\* C17: a chat that was just sent a success reply naming id i, by
\* /deleteReminder or by /deleteReminders, owns no stored reminder with id i.
C17_ConfirmationImpliesDeleted ==
  \A k \in 1..Len(sent) :
    /\ sent[k].kind = "deleted" => stillStored(sent[k].to, IntParam(sent[k].id)) = {}
    /\ sent[k].kind = "deleteManyOk" =>
         \A j \in 1..Len(sent[k].ids) :
           stillStored(sent[k].to, TextParam(sent[k].ids[j])) = {}

\* ------------------------------------------------------- the interval timer
\* The minute of the week (Sunday 00:00 is 0) in which setInterval is
\* called: Wednesday 19:57, host local time.
StartMinute == 3 * MinutesPerDay + 19 * 60 + 57
\* The most slots the event loop runs the timer's callback late.
MaxLate == 1

\* The minute of the week the host's clock shows at a slot, and what
\* now.getDay() and now.toTimeString().slice(0, 5) read in it.
minuteAt(slot) == StartMinute + slot \div SlotsPerMinute
getDay(slot) == (minuteAt(slot) \div MinutesPerDay) % 7
currentTime(slot) ==
  <<(minuteAt(slot) % MinutesPerDay) \div 60, minuteAt(slot) % 60>>

\* Time passes: one slot, and never more than MaxLate slots past the time
\* the timer is due without its callback running.
Advance ==
  /\ alive
  /\ clock.now < MaxClock
  /\ clock.now < clock.due + MaxLate
  /\ clock' = [clock EXCEPT !.now = @ + 1]
  /\ UNCHANGED <<db, nextId, pending, sent, ev, alive, hostOffset>>

\* setInterval(callback, 60000): the callback runs once the timer is due,
\* on time or late, reads the clock then, and the timer is set again one
\* period after the time the callback ran.
TimerFires ==
  /\ alive
  /\ clock.now >= clock.due
  /\ Len(pending) < MaxPending
  /\ pending' = Append(pending,
                  Stmt("query", 0, IntParam(0), <<>>, daysOfWeek[getDay(clock.now) + 1],
                       currentTime(clock.now)))
  /\ sent' = <<>>
  /\ ev' = Handled("tick", 0, <<>>)
  /\ clock' = [clock EXCEPT !.due = clock.now + Period]
  /\ UNCHANGED <<db, nextId, alive, hostOffset>>

\* The scheduler driven by its timer, on stores that /addReminder filled.
NextTimer ==
  \/ \E c \in Chats, raw \in AcceptedTexts : AddReminder(c, raw)
  \/ \E i \in 1..MaxPending : InsertDone(i)
  \/ Advance
  \/ TimerFires
  \/ \E i \in 1..MaxPending, err \in BOOLEAN : QueryDone(i, err)

SpecTimer == Init /\ [][NextTimer]_vars

\* C18: every wall-clock minute is read by exactly one run of the timer's
\* callback: a run that is not the first reads the minute that follows the
\* minute the run before it read, never the same minute again and never a
\* later one.
C18_EveryMinuteTickedOnce ==
  [][(clock'.due # clock.due /\ clock.due # StartClock.due) =>
       minuteAt(clock'.now) = minuteAt(clock.due - Period) + 1]_vars

\* ------------------------------------------------- ticks and deletes
\* The scheduler and /deleteReminder, on stores that /addReminder filled.
NextTickDelete ==
  \/ \E c \in Chats, raw \in AcceptedTexts : AddReminder(c, raw)
  \/ \E i \in 1..MaxPending : InsertDone(i)
  \/ \E wd \in TickDays, t \in TickTimes : Tick(wd, t)
  \/ \E i \in 1..MaxPending, err \in BOOLEAN : QueryDone(i, err)
  \/ \E c \in Chats, d \in IdTexts : DeleteReminder(c, d)
  \/ \E i \in 1..MaxPending, err \in BOOLEAN : DeleteDone(i, err)

SpecTickDelete == Init /\ [][NextTickDelete]_vars

\* C19: neither the scheduler's callback nor its query writes the store;
\* every query the store answers delivers every stored row whose day and
\* time are the query's, whether or not it was delivered before; and a row
\* leaves the table only by a delete of the chat that owns it.
C19_TickLeavesStoreAlone ==
  [][/\ ev'.act \in {"tick", "queried"} => (db' = db /\ nextId' = nextId)
     /\ (ev'.act = "queried" /\ ~ev'.err) =>
          \A r \in db' :
            (r.day_of_week = ev'.stmt.day /\ r.time = ev'.stmt.time) =>
              \E k \in 1..Len(sent') : /\ sent'[k].kind = "reminder"
                                       /\ toString(sent'[k].to) = r.chat_id
                                       /\ sent'[k].text = r.message
     /\ \A r \in db :
          r \notin db' => /\ ev'.act = "deleted"
                          /\ toString(ev'.chat) = r.chat_id
                          /\ ev'.stmt.param.n = r.id]_vars

\* A reminder was delivered and is still stored while a second query for
\* the same day and time is queued.
C19_Witness ==
  /\ ev.act = "queried" /\ ~ev.err
  /\ \E r \in db : /\ r.day_of_week = ev.stmt.day /\ r.time = ev.stmt.time
                   /\ \E k \in 1..Len(sent) : sent[k].text = r.message
  /\ \E i \in 1..Len(pending) :
       /\ pending[i].op = "query"
       /\ pending[i].day = ev.stmt.day /\ pending[i].time = ev.stmt.time

\* C20: no two stored reminders share an id, and an id is never given
\* twice: the id counter never goes back, every stored id is below it, and
\* a row that enters the table gets an id at or above the counter, so above
\* every id given before, whether its row is still stored or was deleted.
C20_IdsUniqueNeverReused ==
  [][/\ nextId' >= nextId
     /\ \A r \in db : r.id < nextId
     /\ \A r1, r2 \in db' : r1.id = r2.id => r1 = r2
     /\ \A r \in db' : (\A x \in db : x.id # r.id) => (r.id >= nextId /\ r.id < nextId')]_vars

\* A reminder was created after the reminder with id 1 had been deleted: it
\* has id 2 and is the only row.
C20_Witness ==
  /\ ev.act = "inserted" /\ ~ev.err
  /\ \E r \in db : db = {r} /\ r.id = 2
  /\ nextId = 3

====
